---------------------------- MODULE Spec2Model ----------------------------
(***************************************************************************)
(* A model of clinpgx_lookup: the name index (build_from_tsv), the matcher *)
(* (lookup_ids), the on-disk index cache (NameIndex.save / load_or_build,  *)
(* load_or_build_index_from_resource) and the ClinPGxTermLookup facade.    *)
(*                                                                         *)
(* Strings are sequences of one-character strings.  "REG" and "TM" stand   *)
(* for the registered sign U+00AE and the trademark sign U+2122.  A float  *)
(* is a pair <<n, d>> with d > 0, the exact rational n / d; for the        *)
(* thresholds and lengths used here the float comparisons of the source    *)
(* agree with the exact ones.                                              *)
(*                                                                         *)
(* The model follows the "drug" dataset; the other branches of _get_index  *)
(* differ only in the constants they pass.                                 *)
(***************************************************************************)
EXTENDS Integers, Sequences, FiniteSets, TLC

-----------------------------------------------------------------------------
(* Characters and strings *)

\* Code points, as Python compares str by code point.
Code(c) ==
    CASE c = " " -> 32
      [] c = "-" -> 45
      [] c = "QUOTE" -> 34
      [] c = "," -> 44
      [] c = "/" -> 47
      [] c = "|" -> 124
      [] c = ";" -> 59
      [] c = "1" -> 49
      [] c = "2" -> 50
      [] c = "3" -> 51
      [] c = "A" -> 65
      [] c = "B" -> 66
      [] c = "a" -> 97
      [] c = "b" -> 98
      [] c = "NaN" -> 0
      [] c = "REG" -> 174
      [] c = "TM" -> 8482

\* str.lower() on one character.
Lower(c) ==
    CASE c = "A" -> "a"
      [] c = "B" -> "b"
      [] c = "D" -> "d"
      [] c = "G" -> "g"
      [] c = "R" -> "r"
      [] c = "S" -> "s"
      [] c = "U" -> "u"
      [] OTHER -> c

\* \s of the regular expressions, and the characters str.strip() removes.
IsSpace(c) == c = " "

\* [a-z0-9]
IsAlnum(c) == c \in {"a", "b", "1", "2", "3"}

RECURSIVE LStrip(_)
LStrip(s) ==
    IF s = <<>> THEN <<>>
    ELSE IF IsSpace(Head(s)) THEN LStrip(Tail(s)) ELSE s

RECURSIVE RStrip(_)
RStrip(s) ==
    IF s = <<>> THEN <<>>
    ELSE IF IsSpace(s[Len(s)]) THEN RStrip(SubSeq(s, 1, Len(s) - 1)) ELSE s

\* str.strip()
Strip(s) == RStrip(LStrip(s))

\* a < b for str (lexicographic by code point)
RECURSIVE StrLess(_, _)
StrLess(a, b) ==
    IF b = <<>> THEN FALSE
    ELSE IF a = <<>> THEN TRUE
    ELSE IF Head(a) # Head(b) THEN Code(Head(a)) < Code(Head(b))
    ELSE StrLess(Tail(a), Tail(b))

StrLeq(a, b) == a = b \/ StrLess(a, b)

\* sorted(S) for a set of str
RECURSIVE SortedStrs(_)
SortedStrs(S) ==
    IF S = {} THEN <<>>
    ELSE LET m == CHOOSE x \in S : \A y \in S : StrLeq(x, y)
         IN  <<m>> \o SortedStrs(S \ {m})

SeqToSet(s) == {s[i] : i \in 1..Len(s)}

-----------------------------------------------------------------------------
(* normalize_name, token_sort, similarity *)

\* the chain of str.replace calls: the registered and trademark signs are
\* removed (curly quotes and dashes fold to characters the next step blanks)
RECURSIVE FoldUnicode(_)
FoldUnicode(s) ==
    IF s = <<>> THEN <<>>
    ELSE IF Head(s) \in {"REG", "TM"} THEN FoldUnicode(Tail(s))
    ELSE <<Head(s)>> \o FoldUnicode(Tail(s))

\* re.sub(r"[^a-z0-9\s]", " ", s)
BlankPunct(s) ==
    [i \in 1..Len(s) |-> IF IsAlnum(s[i]) \/ IsSpace(s[i]) THEN s[i] ELSE " "]

\* re.sub(r"\s+", " ", s)
RECURSIVE CollapseSpaces(_)
CollapseSpaces(s) ==
    IF s = <<>> THEN <<>>
    ELSE IF IsSpace(Head(s))
         THEN <<" ">> \o CollapseSpaces(LStrip(Tail(s)))
         ELSE <<Head(s)>> \o CollapseSpaces(Tail(s))

normalize_name(name) ==
    LET s1 == Strip(name)
        s2 == [i \in 1..Len(s1) |-> Lower(s1[i])]
        s3 == FoldUnicode(s2)
        s4 == BlankPunct(s3)
    IN  Strip(CollapseSpaces(s4))

\* str.split(sep) for a one-character separator set: the pieces between
\* separators, empty pieces included
RECURSIVE SplitOn(_, _, _)
SplitOn(s, seps, cur) ==
    IF s = <<>> THEN <<cur>>
    ELSE IF Head(s) \in seps THEN <<cur>> \o SplitOn(Tail(s), seps, <<>>)
    ELSE SplitOn(Tail(s), seps, cur \o <<Head(s)>>)

\* list.sort() of a list of str (duplicates kept)
RECURSIVE InsertSorted(_, _)
InsertSorted(x, l) ==
    IF l = <<>> THEN <<x>>
    ELSE IF StrLeq(x, Head(l)) THEN <<x>> \o l
    ELSE <<Head(l)>> \o InsertSorted(x, Tail(l))

RECURSIVE SortList(_)
SortList(l) ==
    IF l = <<>> THEN <<>> ELSE InsertSorted(Head(l), SortList(Tail(l)))

\* " ".join(tokens)
RECURSIVE JoinSpace(_)
JoinSpace(l) ==
    IF l = <<>> THEN <<>>
    ELSE IF Len(l) = 1 THEN Head(l)
    ELSE Head(l) \o <<" ">> \o JoinSpace(Tail(l))

token_sort(text) ==
    LET parts  == SplitOn(normalize_name(text), {" "}, <<>>)
        tokens == SelectSeq(parts, LAMBDA t : t # <<>>)
    IN  JoinSpace(SortList(tokens))

\* length of the longest common run of a from i and b from j, inside
\* a[..ahi] and b[..bhi] (1-based, bounds inclusive)
RECURSIVE RunLen(_, _, _, _, _, _)
RunLen(a, b, i, j, ahi, bhi) ==
    IF i > ahi \/ j > bhi THEN 0
    ELSE IF a[i] # b[j] THEN 0
    ELSE 1 + RunLen(a, b, i + 1, j + 1, ahi, bhi)

\* difflib.SequenceMatcher.find_longest_match without junk: the longest
\* block, of those the one starting earliest in a, of those the one
\* starting earliest in b; <<i, j, 0>> when nothing matches
FindLongestMatch(a, b, alo, ahi, blo, bhi) ==
    LET T    == {<<i, j>> : i \in alo..ahi, j \in blo..bhi}
        k(t) == RunLen(a, b, t[1], t[2], ahi, bhi)
    IN  IF \A t \in T : k(t) = 0 THEN <<alo, blo, 0>>
        ELSE LET best == CHOOSE t \in T :
                           \A u \in T :
                              \/ k(t) > k(u)
                              \/ /\ k(t) = k(u)
                                 /\ \/ t[1] < u[1]
                                    \/ t[1] = u[1] /\ t[2] <= u[2]
             IN  <<best[1], best[2], k(best)>>

\* the sum of the sizes of get_matching_blocks(): the longest match, then
\* the same to its left and to its right
RECURSIVE MatchingChars(_, _, _, _, _, _)
MatchingChars(a, b, alo, ahi, blo, bhi) ==
    IF alo > ahi \/ blo > bhi THEN 0
    ELSE LET m == FindLongestMatch(a, b, alo, ahi, blo, bhi)
         IN  IF m[3] = 0 THEN 0
             ELSE m[3]
                  + MatchingChars(a, b, alo, m[1] - 1, blo, m[2] - 1)
                  + MatchingChars(a, b, m[1] + m[3], ahi, m[2] + m[3], bhi)

\* SequenceMatcher(None, a, b).ratio() = 2.0 * matches / (len(a) + len(b))
Ratio(a, b) == <<2 * MatchingChars(a, b, 1, Len(a), 1, Len(b)), Len(a) + Len(b)>>

similarity(a, b) ==
    LET aa == token_sort(a)
        bb == token_sort(b)
    IN  IF aa = <<>> \/ bb = <<>> THEN <<0, 1>> ELSE Ratio(aa, bb)

\* comparisons of floats
FGeq(x, y) == x[1] * y[2] >= y[1] * x[2]
FGt(x, y)  == x[1] * y[2] > y[1] * x[2]
FEq(x, y)  == x[1] * y[2] = y[1] * x[2]
One == <<1, 1>>

-----------------------------------------------------------------------------
(* split_synonyms *)

\* a missing value of a DataFrame cell (float nan): not a str
NaN == <<"NaN">>

IsStr(v) == v # NaN

\* str.replace('""', '"')
RECURSIVE UndoubleQuotes(_)
UndoubleQuotes(s) ==
    IF Len(s) < 2 THEN s
    ELSE IF s[1] = "QUOTE" /\ s[2] = "QUOTE"
         THEN <<"QUOTE">> \o UndoubleQuotes(SubSeq(s, 3, Len(s)))
         ELSE <<Head(s)>> \o UndoubleQuotes(Tail(s))

RECURSIVE LStripQuote(_)
LStripQuote(s) ==
    IF s = <<>> THEN <<>>
    ELSE IF Head(s) = "QUOTE" THEN LStripQuote(Tail(s)) ELSE s

RECURSIVE RStripQuote(_)
RStripQuote(s) ==
    IF s = <<>> THEN <<>>
    ELSE IF s[Len(s)] = "QUOTE" THEN RStripQuote(SubSeq(s, 1, Len(s) - 1)) ELSE s

\* str.strip('"')
StripQuote(s) == RStripQuote(LStripQuote(s))

\* split_synonyms that splits at commas only
split_synonyms_commas_only(field) ==
    IF ~IsStr(field) THEN <<>>
    ELSE LET text == Strip(field)
         IN  IF text = <<>> THEN <<>>
             ELSE LET t2    == StripQuote(UndoubleQuotes(text))
                      parts == SplitOn(t2, {","}, <<>>)
                      clean == [i \in 1..Len(parts) |-> Strip(StripQuote(Strip(parts[i])))]
                  IN  SelectSeq(clean, LAMBDA p : p # <<>>)

split_synonyms(field) ==
    IF ~IsStr(field) THEN <<>>
    ELSE LET text == Strip(field)
         IN  IF text = <<>> THEN <<>>
             ELSE LET t2    == StripQuote(UndoubleQuotes(text))
                      parts == SplitOn(t2, {",", ";", "/", "|"}, <<>>)
                      clean == [i \in 1..Len(parts) |-> Strip(StripQuote(Strip(parts[i])))]
                  IN  SelectSeq(clean, LAMBDA p : p # <<>>)

-----------------------------------------------------------------------------
(* NameIndex.build_from_tsv *)

\* pd.read_csv(tsv_path, sep="\t", dtype=str, keep_default_na=False,
\* na_values=[""]): every cell is a str, except that an empty field is the
\* missing value
read_csv(table) ==
    [columns |-> table.cols,
     rows    |-> [i \in 1..Len(table.rows) |->
                    [c \in table.cols |->
                        IF table.rows[i][c] = <<>> THEN NaN ELSE table.rows[i][c]]]]

\* the column configuration _get_index passes for the drug dataset
DrugConfig ==
    [id_column            |-> "PharmGKB Accession Id",
     primary_name_columns |-> <<"Name">>,
     list_name_columns    |-> <<"Generic Names", "Trade Names", "Brand Mixtures">>]

\* the first non-empty value among the primary columns, trimmed; <<>> is None
RECURSIVE PrimaryName(_, _, _)
PrimaryName(df, row, cols) ==
    IF cols = <<>> THEN <<>>
    ELSE IF Head(cols) \in df.columns
            /\ IsStr(row[Head(cols)]) /\ Strip(row[Head(cols)]) # <<>>
         THEN Strip(row[Head(cols)])
         ELSE PrimaryName(df, row, Tail(cols))

\* every non-empty trimmed value of the primary columns
RECURSIVE PrimaryValues(_, _, _)
PrimaryValues(df, row, cols) ==
    IF cols = <<>> THEN <<>>
    ELSE (IF Head(cols) \in df.columns
             /\ IsStr(row[Head(cols)]) /\ Strip(row[Head(cols)]) # <<>>
          THEN <<Strip(row[Head(cols)])>> ELSE <<>>)
         \o PrimaryValues(df, row, Tail(cols))

\* every piece of every list column
RECURSIVE ListValues(_, _, _)
ListValues(df, row, cols) ==
    IF cols = <<>> THEN <<>>
    ELSE (IF Head(cols) \in df.columns
          THEN split_synonyms(row[Head(cols)]) ELSE <<>>)
         \o ListValues(df, row, Tail(cols))

\* the loop of lines 191-196 with the names as written as keys
AddNames_raw_names(name_to_ids, all_names, acc) ==
    LET raw == {all_names[i] : i \in 1..Len(all_names)}
    IN  [k \in DOMAIN name_to_ids \cup raw |->
            (IF k \in DOMAIN name_to_ids THEN name_to_ids[k] ELSE {})
            \cup (IF k \in raw THEN {acc} ELSE {})]

\* dict.setdefault(norm, set()).add(acc) for every non-empty normalized name
\* (the row's seen set only avoids adding the same edge twice)
AddNames(name_to_ids, all_names, acc) ==
    LET norms == {normalize_name(all_names[i]) : i \in 1..Len(all_names)} \ {<<>>}
    IN  [k \in DOMAIN name_to_ids \cup norms |->
            (IF k \in DOMAIN name_to_ids THEN name_to_ids[k] ELSE {})
            \cup (IF k \in norms THEN {acc} ELSE {})]

\* id_to_primary_name[acc] = primary_name
SetPrimary(id_to_primary_name, acc, primary_name) ==
    [k \in DOMAIN id_to_primary_name \cup {acc} |->
        IF k = acc THEN primary_name ELSE id_to_primary_name[k]]

\* one iteration of the loop over df.iterrows(); st is the loop's state
BuildRow(df, cfg, row, st) ==
    IF ~IsStr(row[cfg.id_column])
    THEN [st EXCEPT !.err = "AttributeError"]     \* nan has no strip()
    ELSE LET acc == Strip(row[cfg.id_column])
         IN  IF acc = <<>> THEN st
             ELSE LET primary_name == PrimaryName(df, row, cfg.primary_name_columns)
                      all_names    == PrimaryValues(df, row, cfg.primary_name_columns)
                                      \o ListValues(df, row, cfg.list_name_columns)
                  IN  [st EXCEPT
                         !.id_to_primary_name =
                             IF primary_name # <<>>
                             THEN SetPrimary(@, acc, primary_name) ELSE @,
                         !.name_to_ids = AddNames(@, all_names, acc)]

RECURSIVE BuildRows(_, _, _, _)
BuildRows(df, cfg, i, st) ==
    IF i > Len(df.rows) \/ st.err # "none" THEN st
    ELSE BuildRows(df, cfg, i + 1, BuildRow(df, cfg, df.rows[i], st))

NoIndex == [name_to_ids |-> <<>>, candidates |-> <<>>,
            id_to_primary_name |-> <<>>, metadata |-> [version |-> "none"]]

\* build_from_tsv without the check of lines 150-151: a table that lacks
\* the ID column gives an index of nothing
build_from_tsv_unchecked_columns(table, cfg, now) ==
    [err |-> "none",
     idx |-> [NoIndex EXCEPT !.metadata = [created_at |-> now,
                                           total_names |-> 0,
                                           total_candidates |-> 0,
                                           version |-> "1.0"]]]

\* build_from_tsv with candidates = list(set(name_to_ids)): the order of a
\* set of str differs from run to run, here with the time of the run
build_from_tsv_unsorted_candidates(table, cfg, now) ==
    LET df == read_csv(table)
        st == BuildRows(df, cfg, 1, [err |-> "none", name_to_ids |-> <<>>,
                                     id_to_primary_name |-> <<>>])
        cs == SortedStrs(DOMAIN st.name_to_ids)
    IN  IF cfg.id_column \notin df.columns
        THEN [err |-> "ValueError", idx |-> NoIndex]
        ELSE IF st.err # "none" THEN [err |-> st.err, idx |-> NoIndex]
        ELSE [err |-> "none",
              idx |-> [name_to_ids        |-> st.name_to_ids,
                       candidates         |->
                           IF now % 2 = 0 THEN cs
                           ELSE [i \in 1..Len(cs) |-> cs[Len(cs) + 1 - i]],
                       id_to_primary_name |-> st.id_to_primary_name,
                       metadata |-> [created_at       |-> now,
                                     total_names      |-> Len(cs),
                                     total_candidates |-> Len(cs),
                                     version          |-> "1.0"]]]

\* build_from_tsv at time now: [err, idx]; err is "none" or the exception
build_from_tsv(table, cfg, now) ==
    LET df == read_csv(table)
    IN  IF cfg.id_column \notin df.columns
        THEN [err |-> "ValueError", idx |-> NoIndex]
        ELSE LET st == BuildRows(df, cfg, 1,
                          [err |-> "none", name_to_ids |-> <<>>,
                           id_to_primary_name |-> <<>>])
             IN  IF st.err # "none" THEN [err |-> st.err, idx |-> NoIndex]
                 ELSE [err |-> "none",
                       idx |-> [name_to_ids        |-> st.name_to_ids,
                                candidates         |-> SortedStrs(DOMAIN st.name_to_ids),
                                id_to_primary_name |-> st.id_to_primary_name,
                                metadata |-> [created_at       |-> now,
                                              total_names      |-> Cardinality(DOMAIN st.name_to_ids),
                                              total_candidates |-> Cardinality(DOMAIN st.name_to_ids),
                                              version          |-> "1.0"]]]

-----------------------------------------------------------------------------
(* lookup_ids *)

Min(S) == CHOOSE x \in S : \A y \in S : x <= y
Max(S) == CHOOSE x \in S : \A y \in S : x >= y
Abs(n) == IF n < 0 THEN -n ELSE n

\* seq[:k] of Python: a negative k counts from the end
PySlice(seq, k) ==
    IF k >= 0 THEN SubSeq(seq, 1, Min({k, Len(seq)}))
    ELSE SubSeq(seq, 1, Max({0, Len(seq) + k}))

\* s.replace(" ", "")
NoSpaces(s) == SelectSeq(s, LAMBDA c : c # " ")

\* the exact path: the length of the shortest candidate that maps to acc
ShortestLen(index, acc) ==
    Min({Len(index.candidates[i]) : i \in {j \in 1..Len(index.candidates) :
            acc \in index.name_to_ids[index.candidates[j]]}})

\* key=lambda x: (x[1][0], x[0])
ExactLess(index, x, y) ==
    \/ ShortestLen(index, x) < ShortestLen(index, y)
    \/ ShortestLen(index, x) = ShortestLen(index, y) /\ StrLess(x, y)

\* index.id_to_primary_name.get(acc, norm_q)
PrimaryOr(index, acc, norm_q) ==
    IF acc \in DOMAIN index.id_to_primary_name
    THEN index.id_to_primary_name[acc] ELSE norm_q

\* sorted(id_to_shortest_match.items(), key=...): the item at position i
\* has i - 1 items before it
ExactSorted(index, S) ==
    [i \in 1..Cardinality(S) |->
        CHOOSE x \in S : Cardinality({y \in S : ExactLess(index, y, x)}) = i - 1]

ExactMatch(index, norm_q, top_k) ==
    LET sorted_items == ExactSorted(index, index.name_to_ids[norm_q])
        ids == PySlice(sorted_items, top_k)
    IN  <<ids,
          [i \in 1..Len(ids) |-> PrimaryOr(index, ids[i], norm_q)],
          [i \in 1..Len(ids) |-> One]>>

\* abs(len(norm_q) - len(cand)) > max(len(norm_q), len(cand)) * (1 - threshold)
Pruned(norm_q, cand, threshold) ==
    Abs(Len(norm_q) - Len(cand)) * threshold[2]
        > Max({Len(norm_q), Len(cand)}) * (threshold[2] - threshold[1])

\* if s == 1.0 and len(scored) >= top_k: break
EarlyExit(s, scored, top_k) == FEq(s, One) /\ Len(scored) >= top_k

\* the loop over index.candidates from position i: the scored list and the
\* number of calls of similarity
RECURSIVE Scan(_, _, _, _, _, _, _)
Scan(cands, i, norm_q, threshold, top_k, scored, calls) ==
    IF i > Len(cands) THEN [scored |-> scored, calls |-> calls]
    ELSE IF Pruned(norm_q, cands[i], threshold)
         THEN Scan(cands, i + 1, norm_q, threshold, top_k, scored, calls)
         ELSE LET s == similarity(norm_q, cands[i])
              IN  IF FGeq(s, threshold)
                  THEN LET sc == Append(scored, <<cands[i], s>>)
                       IN  IF EarlyExit(s, sc, top_k)
                           THEN [scored |-> sc, calls |-> calls + 1]
                           ELSE Scan(cands, i + 1, norm_q, threshold, top_k,
                                     sc, calls + 1)
                  ELSE Scan(cands, i + 1, norm_q, threshold, top_k,
                            scored, calls + 1)

\* id_to_best after the aggregation loop: for acc, the first scored pair
\* among those with the greatest score (a later pair replaces only when
\* strictly greater)
BestFor(index, scored, acc) ==
    LET mine == {i \in 1..Len(scored) : acc \in index.name_to_ids[scored[i][1]]}
        top  == {i \in mine : \A j \in mine : FGeq(scored[i][2], scored[j][2])}
        i    == Min(top)
    IN  <<scored[i][2], scored[i][1]>>

\* key=lambda kv: (-kv[1][0], len(kv[1][1].replace(" ", "")), kv[0])
FuzzyLess(index, scored, x, y) ==
    LET bx == BestFor(index, scored, x)
        by == BestFor(index, scored, y)
    IN  \/ FGt(bx[1], by[1])
        \/ /\ FEq(bx[1], by[1])
           /\ \/ Len(NoSpaces(bx[2])) < Len(NoSpaces(by[2]))
              \/ /\ Len(NoSpaces(bx[2])) = Len(NoSpaces(by[2]))
                 /\ StrLess(x, y)

\* sorted(id_to_best.items(), key=...)
FuzzySorted(index, scored, S) ==
    [i \in 1..Cardinality(S) |->
        CHOOSE x \in S :
            Cardinality({y \in S : FuzzyLess(index, scored, y, x)}) = i - 1]

Aggregate(index, scored, top_k) ==
    LET accs  == UNION {index.name_to_ids[scored[i][1]] : i \in 1..Len(scored)}
        items == FuzzySorted(index, scored, accs)
        top   == PySlice(items, Max({0, top_k}))
    IN  <<top,
          [i \in 1..Len(top) |-> BestFor(index, scored, top[i])[2]],
          [i \in 1..Len(top) |-> BestFor(index, scored, top[i])[1]]>>

\* lookup_ids without the exact fast path: every query goes to the scan
lookup_ids_no_fast_path(query, index, threshold, top_k) ==
    IF ~IsStr(query) \/ Strip(query) = <<>>
    THEN [ret |-> << <<>>, <<>> >>, path |-> "blank", calls |-> 0]
    ELSE LET norm_q == normalize_name(query)
             sc == Scan(index.candidates, 1, norm_q, threshold, top_k, <<>>, 0)
         IN  IF sc.scored = <<>>
             THEN [ret |-> << <<>>, <<>>, <<>> >>,
                   path |-> "fuzzy", calls |-> sc.calls]
             ELSE [ret |-> Aggregate(index, sc.scored, top_k),
                   path |-> "fuzzy", calls |-> sc.calls]

\* lookup_ids that looks up the trimmed, lower-cased query as it stands
lookup_ids_raw_query(query, index, threshold, top_k) ==
    IF ~IsStr(query) \/ Strip(query) = <<>>
    THEN [ret |-> << <<>>, <<>> >>, path |-> "blank", calls |-> 0]
    ELSE LET norm_q == [i \in 1..Len(Strip(query)) |-> Lower(Strip(query)[i])]
         IN  IF norm_q \in DOMAIN index.name_to_ids
             THEN [ret |-> ExactMatch(index, norm_q, top_k),
                   path |-> "exact", calls |-> 0]
             ELSE LET sc == Scan(index.candidates, 1, norm_q, threshold, top_k,
                                 <<>>, 0)
                  IN  IF sc.scored = <<>>
                      THEN [ret |-> << <<>>, <<>>, <<>> >>,
                            path |-> "fuzzy", calls |-> sc.calls]
                      ELSE [ret |-> Aggregate(index, sc.scored, top_k),
                            path |-> "fuzzy", calls |-> sc.calls]

\* lookup_ids(query, index=index, threshold=threshold, top_k=top_k):
\* ret is the returned tuple; path and calls tell which part of the function
\* produced it and how often similarity was called
lookup_ids(query, index, threshold, top_k) ==
    IF ~IsStr(query) \/ Strip(query) = <<>>
    THEN [ret |-> << <<>>, <<>> >>, path |-> "blank", calls |-> 0]
    ELSE LET norm_q == normalize_name(query)
         IN  IF norm_q \in DOMAIN index.name_to_ids
             THEN [ret |-> ExactMatch(index, norm_q, top_k),
                   path |-> "exact", calls |-> 0]
             ELSE LET sc == Scan(index.candidates, 1, norm_q, threshold, top_k,
                                 <<>>, 0)
                  IN  IF sc.scored = <<>>
                      THEN [ret |-> << <<>>, <<>>, <<>> >>,
                            path |-> "fuzzy", calls |-> sc.calls]
                      ELSE [ret |-> Aggregate(index, sc.scored, top_k),
                            path |-> "fuzzy", calls |-> sc.calls]

-----------------------------------------------------------------------------
(* Bounds and input pools *)

MaxRows == 2      \* rows of a source table
MaxTopK == 2      \* greatest top_k passed to a query

Cols == {"PharmGKB Accession Id", "Name", "Generic Names"}

Row(id, name, generic) ==
    [c \in Cols |-> CASE c = "PharmGKB Accession Id" -> id
                      [] c = "Name" -> name
                      [] c = "Generic Names" -> generic]

\* rows of a drugs.tsv: plain rows, an ID shared by two rows, a synonym list,
\* an empty ID field, a blank ID field, a padded ID with no primary name
RowPool ==
    { Row(<<"1">>, <<"a">>, <<"a", " ", "b">>),
      Row(<<"2">>, <<"A", "b">>, <<>>),
      Row(<<"2">>, <<"a">>, <<"b", " ", "a", ",", "a", "-", "b", "REG">>),
      Row(<<>>, <<"b">>, <<>>),
      Row(<<" ">>, <<"b">>, <<"a">>),
      Row(<<" ", "1">>, <<>>, <<"B", ";", "a">>) }

Tables == UNION {[1..n -> RowPool] : n \in 0..MaxRows}

\* source files: tables of up to MaxRows rows under the drug columns
Sources ==
    {[cols |-> Cols, rows |-> t] : t \in Tables}

Queries ==
    { <<"b", " ", "a">>, <<"a">>, <<" ", "A", "REG">>, <<"a", "b">>,
      <<" ">>, <<>>, <<"-">> }

\* thresholds inside [0, 1] and outside it
UnitThresholds == { <<0, 1>>, <<1, 2>>, <<3, 5>>, <<3, 4>>, <<1, 1>> }
Thresholds == UnitThresholds \cup { <<3, 2>>, <<-1, 2>> }

TopKs == -1..MaxTopK

-----------------------------------------------------------------------------
(* State *)

VARIABLES
    src,       \* the source TSV file: [table, mtime, changed]
    cache,     \* the cache file of the dataset's basename
    cacheDir,  \* the cache directory: "ok", "readonly" or "uncreatable"
    clock,     \* the time of day
    indices,   \* ClinPGxTermLookup._indices
    index,     \* the NameIndex a caller of build_from_tsv holds
    args,      \* the arguments of the calls of this behaviour
    last,      \* the last call made, with what it returned or raised
    proc       \* the processes running load_or_build_index_from_resource

vars == <<src, cache, cacheDir, clock, indices, index, args, last, proc>>

\* state: "absent", "partial" (opened for writing and not yet, or never,
\* written to the end), "complete", or "mixed" (the bytes of two writers);
\* writers: the processes that hold it open for writing; srcMtime: the
\* modification time the source had when the entry was written
NoCache == [state |-> "absent", obj |-> NoIndex, mtime |-> 0, srcMtime |-> 0,
            writers |-> {}]

\* a call: its name, the exception it raised ("none": it returned), what
\* it returned, the part of lookup_ids that answered and its calls of
\* similarity, whether it touched the file system, and whether search had
\* its index
NoCall == [op |-> "none", err |-> "none", ret |-> <<>>, path |-> "none",
           calls |-> 0, io |-> FALSE, loaded |-> FALSE]

\* a process: where it is in load_or_build_index_from_resource, its
\* force_rebuild, the index it holds, the exception it raised, and what
\* happened on the way (from: "cache" or "build"; stale: the source was newer
\* than the entry's srcMtime when the entry was reused; noIdCol: the source
\* had no ID column when the result was decided; wrote: it opened the cache
\* file for writing; raced: another writer had it open at the same time;
\* readFailed: reading the cache entry raised)
Idle == [pc |-> "idle", force |-> FALSE, idx |-> NoIndex, err |-> "none",
         from |-> "none", stale |-> FALSE, noIdCol |-> FALSE, wrote |-> FALSE,
         raced |-> FALSE, readFailed |-> FALSE]

-----------------------------------------------------------------------------
(* Spec: a caller builds an index from a table and queries it *)

Init ==
    /\ src \in {[table |-> t, mtime |-> 0, changed |-> FALSE] : t \in Sources}
    /\ args \in [query : Queries, threshold : Thresholds, top_k : TopKs]
    /\ index = NoIndex
    /\ last = NoCall
    /\ cache = NoCache
    /\ cacheDir = "ok"
    /\ clock = 0
    /\ indices = <<>>
    /\ proc = <<>>

\* index = NameIndex.build_from_tsv(tsv_path, id_column=..., ...)
BuildFromTsv ==
    LET r == build_from_tsv(src.table, DrugConfig, clock)
    IN  /\ last.op = "none"
        /\ index' = r.idx
        /\ last' = [NoCall EXCEPT !.op = "build_from_tsv", !.err = r.err]
        /\ UNCHANGED <<src, cache, cacheDir, clock, indices, args, proc>>

\* lookup_ids(query, index=index, threshold=threshold, top_k=top_k)
LookupIds ==
    /\ last.op = "build_from_tsv"
    /\ last.err = "none"
    /\ LET r == lookup_ids(args.query, index, args.threshold, args.top_k)
       IN  last' = [NoCall EXCEPT !.op = "lookup_ids", !.ret = r.ret,
                                  !.path = r.path, !.calls = r.calls]
    /\ UNCHANGED <<src, cache, cacheDir, clock, indices, index, args, proc>>

Next == BuildFromTsv \/ LookupIds

Spec == Init /\ [][Next]_vars

-----------------------------------------------------------------------------
(* Claims about build_from_tsv and lookup_ids, checked under Spec *)

NormQ == normalize_name(args.query)

\* C1: when the normalized query is a key of name_to_ids, lookup_ids returns
\* only IDs of name_to_ids[q], every score is exactly 1.0, and the fuzzy
\* scan is not entered (similarity is never called), whatever the threshold.
C1_ExactShortCircuit ==
    (last.op = "lookup_ids" /\ NormQ \in DOMAIN index.name_to_ids) =>
        /\ Len(last.ret) = 3
        /\ SeqToSet(last.ret[1]) \subseteq index.name_to_ids[NormQ]
        /\ Len(last.ret[3]) = Len(last.ret[1])
        /\ \A i \in 1..Len(last.ret[3]) : last.ret[3][i] = One
        /\ last.path = "exact"
        /\ last.calls = 0

\* an exact hit on a key with two IDs, from a query that is not in
\* normalized form, at a threshold above 1
C1_Witness ==
    /\ last.op = "lookup_ids"
    /\ args.query = <<" ", "A", "REG">>
    /\ args.threshold = <<3, 2>>
    /\ NormQ \in DOMAIN index.name_to_ids
    /\ Len(last.ret[1]) = 2
    /\ Len(index.candidates) >= 2

C4_BlankIdRowSkipped ==
    last.op = "build_from_tsv" =>
        LET kept == SelectSeq(src.table.rows,
                        LAMBDA r : Strip(r[DrugConfig.id_column]) # <<>>)
        IN  /\ last.err = "none"
            /\ index = build_from_tsv([src.table EXCEPT !.rows = kept],
                                      DrugConfig, clock).idx

\* a build over a table with a whitespace-only ID and a usable row
C4_Witness ==
    /\ last.op = "build_from_tsv"
    /\ last.err = "none"
    /\ \E i \in 1..Len(src.table.rows) :
          src.table.rows[i][DrugConfig.id_column] = <<" ">>
    /\ index.candidates # <<>>

-----------------------------------------------------------------------------
(* The index cache: NameIndex.save, NameIndex.load_or_build,                *)
(* load_or_build_index_from_resource                                       *)

MaxClock == 2     \* the clock stops here

Procs == {1, 2}

CacheDirs == {"ok", "readonly", "uncreatable"}

\* source tables of the cache model: two IDs under one name, one plain row,
\* and a table without the ID column
TableTwoIds ==
    [cols |-> Cols,
     rows |-> << Row(<<"1">>, <<"a">>, <<"a", " ", "b">>),
                 Row(<<"2">>, <<"a">>, <<>>) >>]
TableOneId ==
    [cols |-> Cols, rows |-> << Row(<<"2">>, <<"A", "b">>, <<>>) >>]
TableNoIdColumn ==
    [cols |-> {"Name", "Generic Names"},
     rows |-> << [c \in {"Name", "Generic Names"} |-> <<"a">>] >>]

SrcPool == {TableTwoIds, TableOneId, TableNoIdColumn}

\* the three maps of two indices are equal (metadata aside)
SameMaps(i1, i2) ==
    /\ i1.name_to_ids = i2.name_to_ids
    /\ i1.candidates = i2.candidates
    /\ i1.id_to_primary_name = i2.id_to_primary_name

\* What two unsynchronized pd.to_pickle calls on one path can leave: each
\* pickles the sets of name_to_ids in its own iteration order, so a file
\* holding bytes of both can unpickle to sets that lost members.  When
\* every set has one member the two byte streams agree on the maps.
Damaged(obj) ==
    [obj EXCEPT !.name_to_ids =
        [k \in DOMAIN @ |-> {CHOOSE x \in @[k] : \A y \in @[k] : StrLeq(x, y)}]]

\* pd.read_pickle(pkl_path): the set of outcomes, "raise" or the object
read_pickle(c) ==
    CASE c.state = "complete" -> {[raised |-> FALSE, obj |-> c.obj]}
      [] c.state = "mixed"    -> {[raised |-> TRUE, obj |-> NoIndex],
                                  [raised |-> FALSE, obj |-> c.obj]}
      [] OTHER                -> {[raised |-> TRUE, obj |-> NoIndex]}

\* tsv_mtime > pkl_mtime
TsvNewer(s, c) == s.mtime > c.mtime

\* isinstance(obj, dict) and "name_to_ids" in obj and "candidates" in obj,
\* and then "id_to_primary_name" in obj: the keys load_or_build looks for
CheckedFields == {"name_to_ids", "candidates", "id_to_primary_name"}

\* cls(name_to_ids=obj["name_to_ids"], candidates=obj["candidates"],
\*     id_to_primary_name=obj.get("id_to_primary_name", {}),
\*     _metadata=obj.get("metadata", {}))
FromEntry(obj) ==
    [name_to_ids |-> obj.name_to_ids,
     candidates |-> obj.candidates,
     id_to_primary_name |-> obj.id_to_primary_name,
     metadata |-> IF "metadata" \in DOMAIN obj THEN obj.metadata ELSE <<>>]

\* load_or_build without the try around the cached branch, as far as a
\* model of its outcomes can say it: what could not be read is returned
CheckOutcomes_unguarded_read(s, c, force_rebuild) ==
    IF force_rebuild \/ c.state = "absent"
    THEN {[kind |-> "build", idx |-> NoIndex, raised |-> FALSE]}
    ELSE {IF ~(CheckedFields \subseteq DOMAIN r.obj) \/ TsvNewer(s, c)
          THEN [kind |-> "build", idx |-> NoIndex, raised |-> r.raised]
          ELSE [kind |-> "hit", idx |-> FromEntry(r.obj), raised |-> r.raised]
          : r \in read_pickle(c)}

\* the first part of load_or_build: the outcomes of looking at the cache,
\* "hit" with the index made from the entry or "build"; raised:
\* pd.read_pickle raised and the except clause of line 282 caught it
CheckOutcomes(s, c, force_rebuild) ==
    IF force_rebuild \/ c.state = "absent"
    THEN {[kind |-> "build", idx |-> NoIndex, raised |-> FALSE]}
    ELSE {IF \/ r.raised
             \/ ~(CheckedFields \subseteq DOMAIN r.obj)
             \/ TsvNewer(s, c)
          THEN [kind |-> "build", idx |-> NoIndex, raised |-> r.raised]
          ELSE [kind |-> "hit", idx |-> FromEntry(r.obj), raised |-> FALSE]
          : r \in read_pickle(c)}

HasIdColumn(table) == DrugConfig.id_column \in table.cols

SetProc(p, r) == proc' = [proc EXCEPT ![p] = r]

\* load_or_build_index_from_resource up to the call of load_or_build:
\* cache_dir.mkdir(parents=True, exist_ok=True) is not guarded
Start(p, force) ==
    /\ proc[p].pc \in {"idle", "done"}
    /\ IF cacheDir = "uncreatable"
       THEN SetProc(p, [Idle EXCEPT !.pc = "done", !.err = "OSError"])
       ELSE SetProc(p, [Idle EXCEPT !.pc = "check", !.force = force])
    /\ UNCHANGED <<src, cache, cacheDir, clock, indices, index, args, last>>

\* load_or_build, the cached branch
Check(p) ==
    /\ proc[p].pc = "check"
    /\ \E o \in CheckOutcomes(src, cache, proc[p].force) :
          IF o.kind = "hit"
          THEN SetProc(p, [proc[p] EXCEPT
                    !.pc = "done", !.idx = o.idx, !.from = "cache",
                    !.stale = src.mtime > cache.srcMtime,
                    !.noIdCol = ~HasIdColumn(src.table),
                    !.readFailed = o.raised])
          ELSE SetProc(p, [proc[p] EXCEPT !.pc = "build",
                                          !.readFailed = o.raised])
    /\ UNCHANGED <<src, cache, cacheDir, clock, indices, index, args, last>>

\* load_or_build: idx = cls.build_from_tsv(...); an exception leaves
Build(p) ==
    /\ proc[p].pc = "build"
    /\ LET r == build_from_tsv(src.table, DrugConfig, clock)
       IN  SetProc(p, [proc[p] EXCEPT
                !.pc = IF r.err = "none" THEN "save" ELSE "done",
                !.idx = r.idx, !.err = r.err, !.from = "build",
                !.noIdCol = ~HasIdColumn(src.table)])
    /\ UNCHANGED <<src, cache, cacheDir, clock, indices, index, args, last>>

\* idx.save(pkl_path) inside try: pd.to_pickle opens the file itself for
\* writing, which empties it; where it cannot, the exception is swallowed
\* and load_or_build returns idx
SaveOpen(p) ==
    /\ proc[p].pc = "save"
    /\ IF cacheDir = "readonly"
       THEN /\ SetProc(p, [proc[p] EXCEPT !.pc = "done"])
            /\ UNCHANGED cache
       ELSE /\ proc' = [q \in Procs |->
                   IF q = p
                   THEN [proc[p] EXCEPT !.pc = "writing", !.wrote = TRUE,
                                        !.raced = cache.writers # {}]
                   ELSE IF q \in cache.writers
                        THEN [proc[q] EXCEPT !.raced = TRUE] ELSE proc[q]]
            /\ cache' = [cache EXCEPT !.state = "partial", !.obj = NoIndex,
                                      !.mtime = clock,
                                      !.writers = @ \cup {p}]
    /\ UNCHANGED <<src, cacheDir, clock, indices, index, args, last>>

\* the states the file can be in when p has written its last byte
Written(p) ==
    IF cache.writers # {p} THEN {"partial"}
    ELSE IF proc[p].raced /\ Damaged(proc[p].idx) # proc[p].idx
         THEN {"complete", "mixed"}
         ELSE {"complete"}

\* pd.to_pickle writes the rest and closes; load_or_build returns idx
SaveClose(p) ==
    /\ proc[p].pc = "writing"
    /\ \E st \in Written(p) :
          cache' = [state    |-> st,
                    obj      |-> CASE st = "complete" -> proc[p].idx
                                   [] st = "mixed" -> Damaged(proc[p].idx)
                                   [] OTHER -> NoIndex,
                    mtime    |-> clock,
                    srcMtime |-> src.mtime,
                    writers  |-> cache.writers \ {p}]
    /\ SetProc(p, [proc[p] EXCEPT !.pc = "done"])
    /\ UNCHANGED <<src, cacheDir, clock, indices, index, args, last>>

\* the process is killed inside pd.to_pickle; what it wrote so far stays
\* (a process killed anywhere else leaves nothing behind: it is a process
\* that takes no further step)
Crash(p) ==
    /\ proc[p].pc = "writing"
    /\ SetProc(p, [proc[p] EXCEPT !.pc = "crashed"])
    /\ cache' = [cache EXCEPT !.writers = @ \ {p}]
    /\ UNCHANGED <<src, cacheDir, clock, indices, index, args, last>>

\* time passes
Tick ==
    /\ clock < MaxClock
    /\ clock' = clock + 1
    /\ UNCHANGED <<src, cache, cacheDir, indices, index, args, last, proc>>

\* the source file is rewritten
ModifySource(t) ==
    /\ t # src.table
    /\ src' = [table |-> t, mtime |-> clock, changed |-> TRUE]
    /\ UNCHANGED <<cache, cacheDir, clock, indices, index, args, last, proc>>

\* prepare_data: shutil.copy2 puts another file in the source's place and
\* gives it the modification time m of the file it copied
CopySource(t, m) ==
    /\ t # src.table
    /\ src' = [table |-> t, mtime |-> m, changed |-> TRUE]
    /\ UNCHANGED <<cache, cacheDir, clock, indices, index, args, last, proc>>

InitCache ==
    /\ src \in {[table |-> t, mtime |-> 0, changed |-> FALSE] : t \in SrcPool}
    /\ cacheDir \in CacheDirs
    /\ cache = NoCache
    /\ clock = 0
    /\ proc = [p \in Procs |-> Idle]
    /\ indices = <<>>
    /\ index = NoIndex
    /\ args = [query |-> <<>>, threshold |-> <<3, 5>>, top_k |-> 0]
    /\ last = NoCall

NextCache ==
    \/ \E p \in Procs, f \in BOOLEAN : Start(p, f)
    \/ \E p \in Procs : Check(p)
    \/ \E p \in Procs : Build(p)
    \/ \E p \in Procs : SaveOpen(p)
    \/ \E p \in Procs : SaveClose(p)
    \/ \E p \in Procs : Crash(p)
    \/ Tick
    \/ \E t \in SrcPool : ModifySource(t)
    \/ \E t \in SrcPool, m \in 0..clock : CopySource(t, m)

SpecCache == InitCache /\ [][NextCache]_vars

-----------------------------------------------------------------------------
(* ClinPGxTermLookup *)

Drug == <<"d", "r", "u", "g">>

\* the alias table of _canonical_type
Alias ==
    [k \in { Drug, Drug \o <<"s">>,
             <<"g", "e", "n", "e">>, <<"g", "e", "n", "e", "s">>,
             <<"p", "h", "e", "n", "o", "t", "y", "p", "e">>,
             <<"p", "h", "e", "n", "o", "t", "y", "p", "e", "s">>,
             <<"v", "a", "r", "i", "a", "n", "t">>,
             <<"v", "a", "r", "i", "a", "n", "t", "s">>,
             <<"a", "l", "l", "e", "l", "e">>,
             <<"a", "l", "l", "e", "l", "e", "s">> } |->
        IF k[Len(k)] = "s" THEN SubSeq(k, 1, Len(k) - 1) ELSE k]

\* t = (entity_type or "").strip().lower()
CanonKey(entity_type) ==
    LET t == Strip(entity_type) IN [i \in 1..Len(t) |-> Lower(t[i])]

\* _canonical_type: [err, et]
canonical_type(entity_type) ==
    IF CanonKey(entity_type) \in DOMAIN Alias
    THEN [err |-> "none", et |-> Alias[CanonKey(entity_type)]]
    ELSE [err |-> "ValueError", et |-> <<>>]

\* load_or_build run from its first line to its last: the set of
\* [err, idx, cache, from] it can end with (from: "cache", the index was
\* made from the cache entry, or "build")
load_or_build(s, c, dir, force_rebuild, now) ==
    {IF o.kind = "hit"
     THEN [err |-> "none", idx |-> o.idx, cache |-> c, from |-> "cache"]
     ELSE LET r == build_from_tsv(s.table, DrugConfig, now)
          IN  IF r.err # "none" \/ dir = "readonly"
              THEN [err |-> r.err, idx |-> r.idx, cache |-> c, from |-> "build"]
              ELSE [err |-> "none", idx |-> r.idx,
                    cache |-> [state |-> "complete", obj |-> r.idx,
                               mtime |-> now, srcMtime |-> s.mtime,
                               writers |-> {}],
                    from |-> "build"]
     : o \in CheckOutcomes(s, c, force_rebuild)}

\* load_or_build_index_from_resource run from its first line to its last
load_or_build_index_from_resource(s, c, dir, force_rebuild, now) ==
    IF dir = "uncreatable"
    THEN {[err |-> "OSError", idx |-> NoIndex, cache |-> c, from |-> "none"]}
    ELSE load_or_build(s, c, dir, force_rebuild, now)

\* ids, matched_names, scores = lookup_ids(...) and the list of matches
Matches(r) ==
    IF Len(r.ret) # 3
    THEN [err |-> "ValueError", ret |-> <<>>]      \* not enough values to unpack
    ELSE [err |-> "none",
          ret |-> [i \in 1..Len(r.ret[1]) |->
                     [id |-> r.ret[1][i], name |-> r.ret[2][i],
                      score |-> r.ret[3][i]]]]

\* what search ends with, given what lookup_ids returned
SearchResult(r, io) ==
    [op |-> "search", err |-> Matches(r).err, ret |-> Matches(r).ret,
     path |-> r.path, calls |-> r.calls, io |-> io, loaded |-> TRUE]

\* search's call of lookup_ids on the index idx
SearchIn(idx, io) ==
    last' = SearchResult(
                lookup_ids(args.term, idx, args.threshold, args.top_k), io)

\* _get_index(entity_type, use_cache=cache) when the index has to be loaded:
\* the set of [err, idx, cache] of load_or_build_index_from_resource
GetIndexLoads ==
    load_or_build_index_from_resource(src, cache, cacheDir, ~args.cache, clock)

\* if use_cache: self._indices[et] = idx
Memoised(et, idx) ==
    IF args.cache
    THEN [k \in DOMAIN indices \cup {et} |-> IF k = et THEN idx ELSE indices[k]]
    ELSE indices

\* ClinPGxTermLookup.search(entity_type, term, threshold=, top_k=, cache=):
\* _canonical_type raises
SearchBadType ==
    /\ canonical_type(args.entity_type).err # "none"
    /\ last' = [NoCall EXCEPT !.op = "search",
                              !.err = canonical_type(args.entity_type).err]
    /\ UNCHANGED <<indices, cache, src, cacheDir, clock, index, args, proc>>

\* search: _get_index returns the index the instance holds
SearchMemo ==
    /\ canonical_type(args.entity_type).err = "none"
    /\ args.cache
    /\ canonical_type(args.entity_type).et \in DOMAIN indices
    /\ SearchIn(indices[canonical_type(args.entity_type).et], FALSE)
    /\ UNCHANGED <<indices, cache, src, cacheDir, clock, index, args, proc>>

\* search: _get_index loads or builds the index
SearchLoad ==
    /\ canonical_type(args.entity_type).err = "none"
    /\ ~(args.cache /\ canonical_type(args.entity_type).et \in DOMAIN indices)
    /\ \E o \in GetIndexLoads :
          /\ cache' = o.cache
          /\ \/ /\ o.err # "none"
                /\ last' = [NoCall EXCEPT !.op = "search", !.err = o.err,
                                          !.io = TRUE]
                /\ UNCHANGED indices
             \/ /\ o.err = "none"
                /\ SearchIn(o.idx, TRUE)
                /\ indices' = Memoised(canonical_type(args.entity_type).et, o.idx)
    /\ UNCHANGED <<src, cacheDir, clock, index, args, proc>>

\* ClinPGxTermLookup.clear_cache(entity_type); all is entity_type=None
ClearCache(all, entity_type) ==
    /\ LET ct == canonical_type(entity_type)
       IN  IF all
           THEN /\ indices' = <<>>
                /\ last' = [NoCall EXCEPT !.op = "clear_cache"]
           ELSE /\ indices' = [k \in DOMAIN indices \ {ct.et} |-> indices[k]]
                /\ last' = [NoCall EXCEPT !.op = "clear_cache", !.err = ct.err]
    /\ UNCHANGED <<src, cache, cacheDir, clock, index, args, proc>>

EntityTypes == { Drug, <<" ", "D", "R", "U", "G", "S">>, <<"r", "x">> }

Terms == { <<>>, <<" ">>, <<"a">>, <<"b", " ", "a">> }

SearchThresholds == { <<3, 5>>, <<0, 1>>, <<3, 2>>, <<-1, 2>> }

InUnit(t) == FGeq(t, <<0, 1>>) /\ FGeq(<<1, 1>>, t)

InitSearch ==
    /\ src \in {[table |-> t, mtime |-> 0, changed |-> FALSE] :
                   t \in {TableTwoIds, TableOneId}}
    /\ args \in [entity_type : EntityTypes, term : Terms,
                 threshold : SearchThresholds, top_k : 1..MaxTopK,
                 cache : BOOLEAN]
    /\ cacheDir \in CacheDirs
    /\ cache = NoCache
    /\ clock = 0
    /\ indices = <<>>
    /\ index = NoIndex
    /\ last = NoCall
    /\ proc = <<>>

NextSearch ==
    \/ SearchBadType
    \/ SearchMemo
    \/ SearchLoad
    \/ \E e \in EntityTypes : ClearCache(FALSE, e)
    \/ ClearCache(TRUE, <<>>)

SpecSearch == InitSearch /\ [][NextSearch]_vars

-----------------------------------------------------------------------------
(* Claims about ClinPGxTermLookup.search, checked under SpecSearch *)

\* C2: for a valid entity type whose index loads, search with an empty or
\* whitespace-only term returns an empty sequence and raises nothing.
C2_BlankTermEmptyResult ==
    (last.op = "search" /\ last.loaded /\ Strip(args.term) = <<>>) =>
        (last.err = "none" /\ last.ret = <<>>)

\* a search for a blank term that got its index
C2_Witness ==
    /\ last.op = "search"
    /\ last.loaded
    /\ args.term = <<" ">>
    /\ last.path = "blank"

\* C6: a threshold outside [0, 1] is rejected with an invalid-argument error
\* before any file or cache I/O; no results are computed for it.
C6_BadThresholdRejected ==
    (last.op = "search" /\ ~InUnit(args.threshold)) =>
        /\ last.err = "ValueError"
        /\ ~last.io
        /\ ~last.loaded
        /\ last.ret = <<>>

\* a search at threshold 1.5 that returned matches after building the index
C6_Witness ==
    /\ last.op = "search"
    /\ args.threshold = <<3, 2>>
    /\ last.io
    /\ last.err = "none"
    /\ last.ret # <<>>

-----------------------------------------------------------------------------
(* Claims about the index cache, checked under SpecCache *)

\* C5: when a cache entry exists and the source's modification time is
\* later than the source modification time at which the entry was written,
\* load_or_build rebuilds and does not return the cached copy.
C5_StaleCacheRebuilt ==
    \A p \in Procs :
        (proc[p].pc = "done" /\ proc[p].from = "cache") => ~proc[p].stale

C8_AllOrNothing ==
    ((\E p \in Procs : proc[p].pc = "crashed") /\ cache.writers = {}) =>
        cache.state \in {"absent", "complete"}

\* a save was interrupted and the next load_or_build has run to its end
C8_Witness ==
    \E p, q \in Procs :
        /\ proc[p].pc = "crashed"
        /\ proc[q].pc = "done"
        /\ proc[q].from = "build"
        /\ cache.state = "complete"

\* C9: two builders running load_or_build concurrently over an unchanged
\* source leave the cache entry as one builder's complete index, and nobody
\* returns an index that differs from a fresh build.
C9_ConcurrentBuildersAgree ==
    (/\ ~src.changed
     /\ cacheDir = "ok"
     /\ \A p \in Procs : proc[p].pc = "done" /\ proc[p].err = "none") =>
        /\ cache.state = "complete"
        /\ SameMaps(cache.obj, build_from_tsv(src.table, DrugConfig, clock).idx)
        /\ \A p \in Procs :
              SameMaps(proc[p].idx,
                       build_from_tsv(src.table, DrugConfig, clock).idx)

\* both builders wrote at the same time and both are done
C9_Witness ==
    /\ ~src.changed
    /\ \A p \in Procs :
          proc[p].pc = "done" /\ proc[p].wrote /\ proc[p].raced
    /\ cache.writers = {}

\* C10: a failure to persist is never fatal: where the source builds,
\* load-or-build returns the built index even if the cache directory or the
\* cache file cannot be created or written.
C10_PersistFailureNotFatal ==
    \A p \in Procs :
        (/\ proc[p].pc = "done"
         /\ cacheDir # "ok"
         /\ ~src.changed
         /\ HasIdColumn(src.table)) =>
            /\ proc[p].err = "none"
            /\ SameMaps(proc[p].idx,
                        build_from_tsv(src.table, DrugConfig, clock).idx)

\* the cache file could not be written and the built index was returned
C10_Witness ==
    \E p \in Procs :
        /\ cacheDir = "readonly"
        /\ proc[p].pc = "done"
        /\ proc[p].from = "build"
        /\ proc[p].err = "none"
        /\ proc[p].idx.candidates # <<>>

\* C11: a cache entry that exists but cannot be read or deserialized never
\* makes load_or_build fail: the index is rebuilt from the source and the
\* rebuilt index is returned (the call fails only where the build of the
\* source itself fails).
C11_UnreadableCacheRebuilt ==
    \A p \in Procs :
        (proc[p].readFailed /\ proc[p].pc \in {"save", "writing", "done"}) =>
            /\ proc[p].from = "build"
            /\ proc[p].err # "none" => (proc[p].noIdCol /\ proc[p].err = "ValueError")
            /\ proc[p].err = "none" => proc[p].idx # NoIndex
            /\ (proc[p].err = "none" /\ ~src.changed) =>
                  SameMaps(proc[p].idx,
                           build_from_tsv(src.table, DrugConfig, clock).idx)

\* a load_or_build that could not read the entry has returned a built index
C11_Witness ==
    \E p \in Procs :
        /\ proc[p].pc = "done"
        /\ proc[p].readFailed
        /\ proc[p].err = "none"
        /\ proc[p].idx.candidates # <<>>

-----------------------------------------------------------------------------
(* A caller that holds one built index and sends it query after query *)

\* lookup_ids that takes its IDs out of the index,
\* ids = index.name_to_ids.pop(norm_q), on the exact path
index_after_lookup_popping(query, idx, threshold, top_k) ==
    IF lookup_ids(query, idx, threshold, top_k).path = "exact"
    THEN [idx EXCEPT !.name_to_ids =
             [k \in DOMAIN @ \ {normalize_name(query)} |-> @[k]]]
    ELSE idx

\* what a call of lookup_ids leaves in the index object it was given: it
\* tests membership (line 333), copies a set into a list (334), iterates
\* over candidates (344, 369) and reads with dict.get and a default (345,
\* 360, 389); it assigns to nothing inside index
index_after_lookup(query, idx, threshold, top_k) == idx

InitQuery ==
    /\ src \in {[table |-> t, mtime |-> 0, changed |-> FALSE] :
                   t \in {TableTwoIds, TableOneId}}
    /\ index = build_from_tsv(src.table, DrugConfig, 0).idx
    /\ args = [query |-> <<>>, threshold |-> <<3, 5>>, top_k |-> 0]
    /\ last = NoCall
    /\ cache = NoCache
    /\ cacheDir = "ok"
    /\ clock = 0
    /\ indices = <<>>
    /\ proc = <<>>

\* one more call lookup_ids(q, index=index, threshold=t, top_k=k)
Query(q, t, k) ==
    /\ args' = [query |-> q, threshold |-> t, top_k |-> k]
    /\ last' = [NoCall EXCEPT !.op = "lookup_ids",
                              !.ret = lookup_ids(q, index, t, k).ret,
                              !.path = lookup_ids(q, index, t, k).path,
                              !.calls = lookup_ids(q, index, t, k).calls]
    /\ index' = index_after_lookup(q, index, t, k)
    /\ UNCHANGED <<src, cache, cacheDir, clock, indices, proc>>

NextQuery == \E q \in Queries, t \in Thresholds, k \in TopKs : Query(q, t, k)

SpecQuery == InitQuery /\ [][NextQuery]_vars

-----------------------------------------------------------------------------
(* Claims about lookup_ids and build_from_tsv, checked under Spec *)

\* the queries of the model and other spellings of them: case, padding,
\* punctuation and signs changed
QueryVariants ==
    Queries \cup { <<"B", "-", "a">>, <<"b", " ", " ", "a", "TM">>,
                   <<"A", "b", " ">>, <<"REG">>, <<"a", ",">> }

\* C13: two non-blank queries with equal normalized form return identical
\* results from lookup_ids for the same index, threshold and top_k.
C13_NormalizationEquivalence ==
    (last.op = "lookup_ids" /\ Strip(args.query) # <<>>) =>
        \A q2 \in QueryVariants :
            (Strip(q2) # <<>> /\ normalize_name(q2) = normalize_name(args.query))
                => lookup_ids(q2, index, args.threshold, args.top_k).ret = last.ret

\* a fuzzy query that has other spellings has returned matches
C13_Witness ==
    /\ last.op = "lookup_ids"
    /\ args.query = <<"b", " ", "a">>
    /\ last.path = "fuzzy"
    /\ last.ret[1] # <<>>

-----------------------------------------------------------------------------
(* lookup_ids with the iteration order of the ID sets made explicit: ord   *)
(* lists the IDs in the order in which the sets of this process yield them *)

\* list(S) or "for acc in S" under the order ord
IterList(S, ord) == SelectSeq(ord, LAMBDA x : x \in S)

\* the orders in which the IDs of S can come
IdOrders(S) ==
    {f \in [1..Cardinality(S) -> S] : \A x \in S : \E i \in DOMAIN f : f[i] = x}

AllIds(idx) == UNION {idx.name_to_ids[k] : k \in DOMAIN idx.name_to_ids}

\* sorted(items, key=...) of the exact path, items in dict insertion order:
\* Python's sort is stable, the last item goes behind those not greater
RECURSIVE StableSortExact(_, _)
StableSortExact(idx, items) ==
    IF items = <<>> THEN <<>>
    ELSE LET front == StableSortExact(idx, SubSeq(items, 1, Len(items) - 1))
             x     == items[Len(items)]
             k     == Cardinality({i \in 1..Len(front) :
                                      ~ExactLess(idx, x, front[i])})
         IN  SubSeq(front, 1, k) \o <<x>> \o SubSeq(front, k + 1, Len(front))

\* the keys of id_to_best in insertion order: for every scored pair in
\* turn, the IDs of its candidate in iteration order, first occurrences
RECURSIVE BestKeys(_, _, _)
BestKeys(idx, scored, ord) ==
    IF scored = <<>> THEN <<>>
    ELSE LET front == BestKeys(idx, SubSeq(scored, 1, Len(scored) - 1), ord)
             mine  == IterList(idx.name_to_ids[scored[Len(scored)][1]], ord)
         IN  front \o SelectSeq(mine, LAMBDA x : x \notin SeqToSet(front))

\* sorted(id_to_best.items(), key=...), stable
RECURSIVE StableSortFuzzy(_, _, _)
StableSortFuzzy(idx, scored, items) ==
    IF items = <<>> THEN <<>>
    ELSE LET front == StableSortFuzzy(idx, scored,
                                      SubSeq(items, 1, Len(items) - 1))
             x     == items[Len(items)]
             k     == Cardinality({i \in 1..Len(front) :
                                      ~FuzzyLess(idx, scored, x, front[i])})
         IN  SubSeq(front, 1, k) \o <<x>> \o SubSeq(front, k + 1, Len(front))

\* the returned tuple for the IDs ids taken in the order given
ExactTuple(idx, ids, norm_q) ==
    <<ids,
      [i \in 1..Len(ids) |-> PrimaryOr(idx, ids[i], norm_q)],
      [i \in 1..Len(ids) |-> One]>>

FuzzyTuple(idx, scored, top) ==
    <<top,
      [i \in 1..Len(top) |-> BestFor(idx, scored, top[i])[2]],
      [i \in 1..Len(top) |-> BestFor(idx, scored, top[i])[1]]>>

\* lookup_ids that returns the IDs as the sets and dicts yield them,
\* without the two calls of sorted
lookup_ids_in_order_unsorted(query, idx, threshold, top_k, ord) ==
    IF ~IsStr(query) \/ Strip(query) = <<>> THEN << <<>>, <<>> >>
    ELSE IF normalize_name(query) \in DOMAIN idx.name_to_ids
    THEN ExactTuple(idx,
             PySlice(IterList(idx.name_to_ids[normalize_name(query)], ord),
                     top_k),
             normalize_name(query))
    ELSE IF Scan(idx.candidates, 1, normalize_name(query), threshold, top_k,
                 <<>>, 0).scored = <<>>
    THEN << <<>>, <<>>, <<>> >>
    ELSE FuzzyTuple(idx,
             Scan(idx.candidates, 1, normalize_name(query), threshold, top_k,
                  <<>>, 0).scored,
             PySlice(BestKeys(idx,
                         Scan(idx.candidates, 1, normalize_name(query),
                              threshold, top_k, <<>>, 0).scored, ord),
                     Max({0, top_k})))

\* the tuple lookup_ids returns in a process whose sets iterate in order ord
lookup_ids_in_order(query, idx, threshold, top_k, ord) ==
    IF ~IsStr(query) \/ Strip(query) = <<>> THEN << <<>>, <<>> >>
    ELSE IF normalize_name(query) \in DOMAIN idx.name_to_ids
    THEN ExactTuple(idx,
             PySlice(StableSortExact(idx,
                         IterList(idx.name_to_ids[normalize_name(query)], ord)),
                     top_k),
             normalize_name(query))
    ELSE IF Scan(idx.candidates, 1, normalize_name(query), threshold, top_k,
                 <<>>, 0).scored = <<>>
    THEN << <<>>, <<>>, <<>> >>
    ELSE FuzzyTuple(idx,
             Scan(idx.candidates, 1, normalize_name(query), threshold, top_k,
                  <<>>, 0).scored,
             PySlice(StableSortFuzzy(idx,
                         Scan(idx.candidates, 1, normalize_name(query),
                              threshold, top_k, <<>>, 0).scored,
                         BestKeys(idx,
                             Scan(idx.candidates, 1, normalize_name(query),
                                  threshold, top_k, <<>>, 0).scored, ord)),
                     Max({0, top_k})))

\* C14: determinism: lookup_ids with the same query, threshold and top_k on
\* equal indices returns the same IDs, names and scores in the same order,
\* whatever the iteration order of the ID sets.
C14_DeterministicUnderSetOrder ==
    last.op = "lookup_ids" =>
        \A ord \in IdOrders(AllIds(index)) :
            lookup_ids_in_order(args.query, index, args.threshold,
                                args.top_k, ord) = last.ret

\* an exact match with two IDs that only the ID tie-break tells apart
C14_Witness ==
    /\ last.op = "lookup_ids"
    /\ last.path = "exact"
    /\ Len(last.ret[1]) = 2
    /\ ShortestLen(index, last.ret[1][1]) = ShortestLen(index, last.ret[1][2])

-----------------------------------------------------------------------------
(* Claims about the build *)

C16_BuiltIndexWellFormed ==
    (last.op \in {"build_from_tsv", "lookup_ids"} /\ last.err = "none") =>
        /\ \A k \in DOMAIN index.name_to_ids :
              /\ k # <<>>
              /\ normalize_name(k) = k
              /\ index.name_to_ids[k] # {}
        /\ SeqToSet(index.candidates) = DOMAIN index.name_to_ids
        /\ \A i, j \in 1..Len(index.candidates) :
              i < j => StrLess(index.candidates[i], index.candidates[j])

\* a build from names that needed normalizing gave three keys or more, one
\* of them with two IDs
C16_Witness ==
    /\ last.op = "build_from_tsv"
    /\ last.err = "none"
    /\ Len(index.candidates) >= 3
    /\ \E k \in DOMAIN index.name_to_ids : Cardinality(index.name_to_ids[k]) = 2
    /\ \E i \in 1..Len(src.table.rows) :
          normalize_name(src.table.rows[i]["Generic Names"])
              # src.table.rows[i]["Generic Names"]

\* the pieces of a list-name field between the separators , ; / |
Pieces(field) == SeqToSet(SplitOn(field, {",", ";", "/", "|"}, <<>>))

\* the normalized names a row gives: its primary name and the pieces of its
\* synonym list
RowKeys(row) ==
    ({normalize_name(row["Name"])}
        \cup {normalize_name(p) : p \in Pieces(row["Generic Names"])}) \ {<<>>}

\* C17: for a row with a non-empty ID every piece of a list-name field
\* separated by , ; / | is its own normalized key of name_to_ids that maps
\* to the row's ID, and the row's ID is under no other key than those of
\* its names.
C17_SynonymsSplit ==
    (last.op = "build_from_tsv" /\ last.err = "none") =>
        /\ \A i \in 1..Len(src.table.rows) :
              Strip(src.table.rows[i][DrugConfig.id_column]) # <<>> =>
                  \A p \in Pieces(src.table.rows[i]["Generic Names"]) :
                      normalize_name(p) # <<>> =>
                          /\ normalize_name(p) \in DOMAIN index.name_to_ids
                          /\ Strip(src.table.rows[i][DrugConfig.id_column])
                                \in index.name_to_ids[normalize_name(p)]
        /\ \A k \in DOMAIN index.name_to_ids : \A acc \in index.name_to_ids[k] :
              \E i \in 1..Len(src.table.rows) :
                  /\ Strip(src.table.rows[i][DrugConfig.id_column]) = acc
                  /\ k \in RowKeys(src.table.rows[i])

\* a list "b a,a-b(R)" has been split into the keys "b a" and "a b"
C17_Witness ==
    /\ last.op = "build_from_tsv"
    /\ last.err = "none"
    /\ \E i \in 1..Len(src.table.rows) :
          /\ Cardinality(Pieces(src.table.rows[i]["Generic Names"])) = 2
          /\ Strip(src.table.rows[i][DrugConfig.id_column]) = <<"2">>
    /\ <<"b", " ", "a">> \in DOMAIN index.name_to_ids
    /\ <<"a", " ", "b">> \in DOMAIN index.name_to_ids
    /\ <<"2">> \in index.name_to_ids[<<"a", " ", "b">>]

-----------------------------------------------------------------------------
(* Claims about the fuzzy scan *)

\* the scan of lines 369-381 without the length test of line 371
RECURSIVE ScanUnpruned(_, _, _, _, _, _)
ScanUnpruned(cands, i, norm_q, threshold, top_k, scored) ==
    IF i > Len(cands) THEN scored
    ELSE IF FGeq(similarity(norm_q, cands[i]), threshold)
         THEN IF EarlyExit(similarity(norm_q, cands[i]),
                           Append(scored, <<cands[i], similarity(norm_q, cands[i])>>),
                           top_k)
              THEN Append(scored, <<cands[i], similarity(norm_q, cands[i])>>)
              ELSE ScanUnpruned(cands, i + 1, norm_q, threshold, top_k,
                       Append(scored, <<cands[i], similarity(norm_q, cands[i])>>))
         ELSE ScanUnpruned(cands, i + 1, norm_q, threshold, top_k, scored)

\* the scan of lines 369-381 without the break of lines 380-381
RECURSIVE ScanToEnd(_, _, _, _, _)
ScanToEnd(cands, i, norm_q, threshold, scored) ==
    IF i > Len(cands) THEN scored
    ELSE IF Pruned(norm_q, cands[i], threshold)
         THEN ScanToEnd(cands, i + 1, norm_q, threshold, scored)
         ELSE IF FGeq(similarity(norm_q, cands[i]), threshold)
              THEN ScanToEnd(cands, i + 1, norm_q, threshold,
                       Append(scored, <<cands[i], similarity(norm_q, cands[i])>>))
              ELSE ScanToEnd(cands, i + 1, norm_q, threshold, scored)

\* what lines 383-400 return for a scored list
ResultOf(idx, scored, top_k) ==
    IF scored = <<>> THEN << <<>>, <<>>, <<>> >>
    ELSE Aggregate(idx, scored, top_k)

\* C18: pruning soundness: for a threshold in [0, 1], a candidate skipped by
\* the length test scores below the threshold, and the result with pruning
\* equals the result without pruning.
C18_PruningSound ==
    (/\ last.op = "lookup_ids"
     /\ last.path = "fuzzy"
     /\ args.threshold \in UnitThresholds) =>
        /\ \A i \in 1..Len(index.candidates) :
              Pruned(NormQ, index.candidates[i], args.threshold) =>
                  ~FGeq(similarity(NormQ, index.candidates[i]), args.threshold)
        /\ last.ret = ResultOf(index,
                          ScanUnpruned(index.candidates, 1, NormQ,
                                       args.threshold, args.top_k, <<>>),
                          args.top_k)

\* C19: early exit is result-preserving: the IDs, names, scores and order
\* returned when the scan stops at the first candidate scoring 1.0 with at
\* least top_k candidates collected are those of a scan of all candidates.
C19_EarlyExitPreservesResult ==
    (/\ last.op = "lookup_ids"
     /\ last.path = "fuzzy"
     /\ args.threshold \in UnitThresholds) =>
        last.ret = ResultOf(index,
                       ScanToEnd(index.candidates, 1, NormQ, args.threshold,
                                 <<>>),
                       args.top_k)

\* the orders in which the pairs of scored can be scanned and aggregated
Reorderings(scored) ==
    {f \in [1..Len(scored) -> SeqToSet(scored)] :
        \A x \in SeqToSet(scored) : \E i \in DOMAIN f : f[i] = x}

\* C20: fuzzy aggregation is order-independent: for a fixed set of
\* qualifying (candidate, score) pairs the result is the same for every
\* order in which the pairs are aggregated, ties of the best score included.
C20_AggregationOrderIndependent ==
    (/\ last.op = "lookup_ids"
     /\ last.path = "fuzzy"
     /\ last.ret[1] # <<>>
     /\ NormQ # <<>>
     /\ args.threshold \in UnitThresholds) =>
        \A sc \in Reorderings(Scan(index.candidates, 1, NormQ, args.threshold,
                                   args.top_k, <<>>, 0).scored) :
            Aggregate(index, sc, args.top_k) = last.ret

\* the rows of the table that carry the ID acc and a primary name
NamedRowsOf(table, acc) ==
    {i \in 1..Len(table.rows) :
        /\ Strip(table.rows[i][DrugConfig.id_column]) = acc
        /\ Strip(table.rows[i]["Name"]) # <<>>}

\* C21: the primary display name is first-writer-wins: id_to_primary_name
\* of an ID is the primary name of the earliest row with that ID that has
\* one; later rows do not overwrite it.
C21_PrimaryNameFirstWins ==
    (last.op = "build_from_tsv" /\ last.err = "none") =>
        \A acc \in DOMAIN index.id_to_primary_name :
            index.id_to_primary_name[acc] =
                Strip(src.table.rows[Min(NamedRowsOf(src.table, acc))]["Name"])

\* C22: a query whose normalized form is empty (blank, or only punctuation
\* and trademark signs) returns an empty result set for every index and
\* every threshold in [0, 1], 0 included.
C22_EmptyNormalizedQueryEmptyResult ==
    (last.op = "lookup_ids" /\ last.err = "none" /\ NormQ = <<>>
        /\ args.threshold \in UnitThresholds) =>
        last.ret[1] = <<>>

\* the candidates of the index that score at least the threshold
QualifyingCands(idx, norm_q, threshold) ==
    {c \in DOMAIN idx.name_to_ids : FGeq(similarity(norm_q, c), threshold)}

QualifyingIds(idx, norm_q, threshold) ==
    UNION {idx.name_to_ids[c] : c \in QualifyingCands(idx, norm_q, threshold)}

\* acc has a qualifying candidate of score s and none of a higher score
IsBestScore(idx, norm_q, threshold, acc, s) ==
    /\ \E c \in QualifyingCands(idx, norm_q, threshold) :
          acc \in idx.name_to_ids[c] /\ FEq(similarity(norm_q, c), s)
    /\ \A c \in QualifyingCands(idx, norm_q, threshold) :
          acc \in idx.name_to_ids[c] => FGeq(s, similarity(norm_q, c))

\* (score, matched name, ID) of result i comes no later than that of result j
RankedBefore(ret, i, j) ==
    \/ FGt(ret[3][i], ret[3][j])
    \/ /\ FEq(ret[3][i], ret[3][j])
       /\ \/ Len(NoSpaces(ret[2][i])) < Len(NoSpaces(ret[2][j]))
          \/ /\ Len(NoSpaces(ret[2][i])) = Len(NoSpaces(ret[2][j]))
             /\ StrLess(ret[1][i], ret[1][j])

\* C23: fuzzy ranking: with no exact key, each returned ID carries the
\* maximum similarity over all its candidates that score at least the
\* threshold, with a candidate of that score; the results are ordered by
\* (score descending, matched-name length without spaces ascending, ID
\* ascending) and are the first top_k of all qualifying IDs.
C23_FuzzyRanking ==
    (/\ last.op = "lookup_ids"
     /\ last.path = "fuzzy"
     /\ NormQ # <<>>
     /\ args.threshold \in UnitThresholds) =>
        /\ Len(last.ret[1]) =
              Min({Max({0, args.top_k}),
                   Cardinality(QualifyingIds(index, NormQ, args.threshold))})
        /\ \A i \in 1..Len(last.ret[1]) :
              /\ IsBestScore(index, NormQ, args.threshold,
                             last.ret[1][i], last.ret[3][i])
              /\ last.ret[2][i] \in QualifyingCands(index, NormQ, args.threshold)
              /\ last.ret[1][i] \in index.name_to_ids[last.ret[2][i]]
              /\ FEq(similarity(NormQ, last.ret[2][i]), last.ret[3][i])
        /\ \A i, j \in 1..Len(last.ret[1]) :
              i < j => RankedBefore(last.ret, i, j)
        /\ \A acc \in QualifyingIds(index, NormQ, args.threshold) :
              (\A i \in 1..Len(last.ret[1]) : last.ret[1][i] # acc) =>
                  \A i \in 1..Len(last.ret[1]) :
                      \A s \in {similarity(NormQ, c) : c \in DOMAIN index.name_to_ids} :
                          IsBestScore(index, NormQ, args.threshold, acc, s) =>
                              FGeq(last.ret[3][i], s)

\* C24: exact-path ranking: when the normalized query q is a key, the
\* returned IDs are the first top_k of name_to_ids[q] ordered by (length of
\* the shortest candidate of the ID ascending, ID ascending), and the matched
\* name of each is its primary name if it has one, else q.
C24_ExactRanking ==
    (last.op = "lookup_ids" /\ last.path = "exact") =>
        /\ last.ret[1] =
              SubSeq(ExactSorted(index, index.name_to_ids[NormQ]), 1,
                     Min({Max({0, args.top_k}),
                          Cardinality(index.name_to_ids[NormQ])}))
        /\ Len(last.ret[2]) = Len(last.ret[1])
        /\ \A i \in 1..Len(last.ret[1]) :
              last.ret[2][i] =
                  IF last.ret[1][i] \in DOMAIN index.id_to_primary_name
                  THEN index.id_to_primary_name[last.ret[1][i]]
                  ELSE NormQ

\* C29: for every top_k, 0 and negative values included, lookup_ids returns
\* at most max(0, top_k) results on the exact and on the fuzzy path, its
\* three lists have equal length, and no ID appears twice.
C29_AtMostTopK ==
    (last.op = "lookup_ids" /\ last.path \in {"exact", "fuzzy"}) =>
        /\ Len(last.ret) = 3
        /\ Len(last.ret[1]) <= Max({0, args.top_k})
        /\ Len(last.ret[2]) = Len(last.ret[1])
        /\ Len(last.ret[3]) = Len(last.ret[1])
        /\ \A i, j \in 1..Len(last.ret[1]) :
              last.ret[1][i] = last.ret[1][j] => i = j

-----------------------------------------------------------------------------
(* SpecSim: similarity applied to a pair of strings *)

MaxSimLen == 3

SimAlphabet == {"a", "b", " "}

SimStrs == UNION {[1..n -> SimAlphabet] : n \in 0..MaxSimLen}

InitSim ==
    /\ args \in [a : SimStrs, b : SimStrs]
    /\ src = [table |-> TableOneId, mtime |-> 0, changed |-> FALSE]
    /\ index = NoIndex
    /\ last = NoCall
    /\ cache = NoCache
    /\ cacheDir = "ok"
    /\ clock = 0
    /\ indices = <<>>
    /\ proc = <<>>

\* s = similarity(a, b)
Similarity ==
    /\ last.op = "none"
    /\ last' = [NoCall EXCEPT !.op = "similarity",
                              !.ret = <<similarity(args.a, args.b)>>]
    /\ UNCHANGED <<src, cache, cacheDir, clock, indices, index, args, proc>>

NextSim == Similarity

SpecSim == InitSim /\ [][NextSim]_vars

\* C25: similarity is symmetric, similarity(a, b) = similarity(b, a) for all
\* strings a and b, and similarity(a, a) = 1.0 whenever the normalized form
\* of a is not empty.
C25_SimilaritySymmetric ==
    last.op = "similarity" =>
        /\ FEq(last.ret[1], similarity(args.b, args.a))
        /\ (args.a = args.b /\ normalize_name(args.a) # <<>>) =>
               FEq(last.ret[1], One)

-----------------------------------------------------------------------------
(* SpecDrift: load_or_build finds a cache entry written by another version
   of the package, a dict that holds some of the persisted fields *)

\* the keys save() writes (lines 218-223)
PersistedFields == {"name_to_ids", "candidates", "id_to_primary_name", "metadata"}

\* the dict of an index with the keys in fields only
EntryWith(idx, fields) == [f \in fields |-> idx[f]]

DriftEntries ==
    {[state |-> "complete", obj |-> EntryWith(build_from_tsv(t, DrugConfig, 0).idx, fs),
      mtime |-> 0, srcMtime |-> 0, writers |-> {}] :
        t \in {TableTwoIds, TableOneId}, fs \in SUBSET PersistedFields}

InitDrift ==
    /\ src \in {[table |-> t, mtime |-> m, changed |-> FALSE] :
                   t \in {TableTwoIds, TableOneId}, m \in 0..1}
    /\ cache \in DriftEntries
    /\ args \in [force_rebuild : BOOLEAN, entry : {cache}]
    /\ index = NoIndex
    /\ last = NoCall
    /\ cacheDir = "ok"
    /\ clock = 1
    /\ indices = <<>>
    /\ proc = <<>>

\* index = NameIndex.load_or_build(tsv_path, pkl_path, ..., force_rebuild=...)
LoadOrBuild ==
    /\ last.op = "none"
    /\ \E o \in load_or_build(src, cache, cacheDir, args.force_rebuild, clock) :
          /\ last' = [NoCall EXCEPT !.op = "load_or_build", !.err = o.err,
                                    !.path = o.from, !.io = TRUE]
          /\ index' = o.idx
          /\ cache' = o.cache
    /\ UNCHANGED <<src, cacheDir, clock, indices, args, proc>>

NextDrift == LoadOrBuild

SpecDrift == InitDrift /\ [][NextDrift]_vars

\* C26: schema drift: a cache entry that lacks one of the persisted fields
\* (name_to_ids, candidates, id_to_primary_name, metadata) is treated as
\* stale: load_or_build rebuilds from the source and does not return an
\* index made from that entry.
C26_DriftedEntryRebuilt ==
    (last.op = "load_or_build" /\ DOMAIN args.entry.obj # PersistedFields) =>
        /\ last.path = "build"
        /\ index = build_from_tsv(src.table, DrugConfig, clock).idx
        /\ cache.obj = index

-----------------------------------------------------------------------------
(* SpecMemo: one ClinPGxTermLookup instance while the source file is
   rewritten between its calls *)

InitMemo ==
    /\ src \in {[table |-> t, mtime |-> 0, changed |-> FALSE] :
                   t \in {TableTwoIds, TableOneId}}
    /\ args \in [entity_type : {Drug, <<"r", "x">>}, term : {<<"a">>, <<"b", " ", "a">>},
                 threshold : {<<3, 5>>}, top_k : 1..MaxTopK, cache : BOOLEAN]
    /\ cacheDir \in {"ok", "readonly"}
    /\ cache = NoCache
    /\ clock = 0
    /\ indices = <<>>
    /\ index = NoIndex
    /\ last = NoCall
    /\ proc = <<>>

NextMemo ==
    \/ SearchBadType
    \/ SearchMemo
    \/ SearchLoad
    \/ ClearCache(FALSE, Drug)
    \/ ClearCache(TRUE, <<>>)
    \/ Tick
    \/ \E t \in {TableTwoIds, TableOneId} : ModifySource(t)

SpecMemo == InitMemo /\ [][NextMemo]_vars

\* the index _get_index hands to a search with cache=True that finds the
\* entity type memoised (lines 137-138)
MemoisedIndex == indices[canonical_type(args.entity_type).et]

\* C27: after any sequence of search, clear_cache and source-file
\* modifications on one instance, a search with cache=True uses an index
\* equal to a fresh build of the current source file: whenever such a search
\* finds its entity type memoised, the memoised index is that build.
C27_MemoFollowsSource ==
    (/\ args.cache
     /\ canonical_type(args.entity_type).err = "none"
     /\ canonical_type(args.entity_type).et \in DOMAIN indices) =>
        SameMaps(MemoisedIndex, build_from_tsv(src.table, DrugConfig, clock).idx)

\* a search answered from the memoised index after the source was rewritten
C27_Witness ==
    /\ last.op = "search"
    /\ ~last.io
    /\ src.changed

-----------------------------------------------------------------------------
(* Claims about the disk cache under replaced sources, checked under SpecCache *)

\* C28: whenever load_or_build_index_from_resource returns an index read
\* from the disk cache instead of building, that index equals the index a
\* build of the currently resolved source file would return, for every
\* sequence of source replacements and earlier builds; stated for a complete
\* cache entry written after the modification time of the source.
C28_CacheHitEqualsBuild ==
    (/\ cache.state = "complete"
     /\ cacheDir # "uncreatable"
     /\ src.mtime < cache.mtime) =>
        \A o \in load_or_build_index_from_resource(src, cache, cacheDir,
                                                   FALSE, clock) :
            o.from = "cache" =>
                SameMaps(o.idx, build_from_tsv(src.table, DrugConfig, clock).idx)

\* a process got its index from the cache after the source was replaced
C28_Witness ==
    \E p \in Procs :
        /\ proc[p].pc = "done"
        /\ proc[p].from = "cache"
        /\ src.changed
        /\ src.mtime < cache.mtime

-----------------------------------------------------------------------------
(* SpecResource: load_or_build_index_from_resource with the source resolved
   by open_resource_tsv among its four locations *)

\* 1 the packaged resource, 2 CLINPGX_DATA_DIR, 3 the user cache directory,
\* 4 the development repository
Locations == 1..4

NoFile == [present |-> FALSE, table |-> TableOneId]

FilePool == {NoFile} \cup {[present |-> TRUE, table |-> t] : t \in SrcPool}

\* the first location from i on where is_file() holds, 0 if there is none
FirstFile(locs, i) ==
    IF \E j \in i..4 : locs[j].present
    THEN Min({j \in i..4 : locs[j].present})
    ELSE 0

\* What leaves "with open_resource_tsv(relpath) as tsv_path: <body>" when
\* the body ends with bodyErr ("none": it returned).  contextlib throws the
\* body's exception into the generator at its yield.  The yield of location
\* 1 is inside try ... except Exception: pass, so the exception is caught
\* there and the generator goes on to location 2: if a later location holds
\* the file it yields a second time and contextlib raises RuntimeError
\* ("generator didn't stop after throw()"), else line 460 raises
\* FileNotFoundError.  The yields of locations 2 to 4 are in no try.
open_resource_tsv(locs, bodyErr) ==
    IF FirstFile(locs, 1) = 0 THEN "FileNotFoundError"
    ELSE IF bodyErr = "none" THEN "none"
    ELSE IF FirstFile(locs, 1) = 1
         THEN IF FirstFile(locs, 2) # 0 THEN "RuntimeError"
              ELSE "FileNotFoundError"
         ELSE bodyErr

\* the file tsv_path is bound to
Resolved(locs) ==
    [table |-> locs[FirstFile(locs, 1)].table, mtime |-> 0, changed |-> FALSE]

InitResource ==
    /\ args \in [locations : [Locations -> FilePool], force_rebuild : BOOLEAN]
    /\ src = [table |-> TableOneId, mtime |-> 0, changed |-> FALSE]
    /\ cache = NoCache
    /\ cacheDir = "ok"
    /\ clock = 0
    /\ indices = <<>>
    /\ index = NoIndex
    /\ last = NoCall
    /\ proc = <<>>

\* load_or_build_index_from_resource: no location holds the file
LoadUnresolved ==
    /\ last.op = "none"
    /\ FirstFile(args.locations, 1) = 0
    /\ last' = [NoCall EXCEPT !.op = "load_or_build_index_from_resource",
                              !.err = open_resource_tsv(args.locations, "none")]
    /\ UNCHANGED <<src, cache, cacheDir, clock, indices, index, args, proc>>

\* load_or_build_index_from_resource: load_or_build runs in the with-block
LoadResolved ==
    /\ last.op = "none"
    /\ FirstFile(args.locations, 1) # 0
    /\ src' = Resolved(args.locations)
    /\ \E o \in load_or_build(Resolved(args.locations), cache, cacheDir,
                              args.force_rebuild, clock) :
          /\ last' = [NoCall EXCEPT
                        !.op = "load_or_build_index_from_resource",
                        !.err = open_resource_tsv(args.locations, o.err),
                        !.path = o.from, !.io = TRUE]
          /\ cache' = o.cache
          /\ index' = IF open_resource_tsv(args.locations, o.err) = "none"
                      THEN o.idx ELSE NoIndex
    /\ UNCHANGED <<cacheDir, clock, indices, args, proc>>

NextResource == LoadUnresolved \/ LoadResolved

SpecResource == InitResource /\ [][NextResource]_vars

\* C30: an error raised while the index is loaded or built inside
\* open_resource_tsv's with-block, for any of the four locations, reaches
\* the caller of load_or_build_index_from_resource unchanged: resolution
\* does not go on to later locations and no other error replaces it.
C30_BodyErrorUnchanged ==
    (/\ last.op = "load_or_build_index_from_resource"
     /\ last.path = "build"
     /\ build_from_tsv(src.table, DrugConfig, clock).err # "none") =>
        last.err = build_from_tsv(src.table, DrugConfig, clock).err

\* the build failed on the packaged resource while a later location holds
\* the file
C30_Witness ==
    /\ last.op = "load_or_build_index_from_resource"
    /\ last.path = "build"
    /\ args.locations[1] = [present |-> TRUE, table |-> TableNoIdColumn]
    /\ args.locations[2].present

=============================================================================
